---- MODULE Spec2Model ----
(***************************************************************************)
(* Model of YepCodeCodeExecutor (autogen_ext_yepcode/_yepcode_executor.py): *)
(* the start/stop lifecycle around the YepCodeRun handle and the per-block  *)
(* loop of execute_code_blocks.  The coroutine runs on one asyncio event    *)
(* loop: the code between two awaits of asyncio.to_thread is one atomic     *)
(* step, and while the coroutine is suspended in a remote call the owner    *)
(* of the executor may run start, stop, restart, the scope hooks or cancel  *)
(* the token.                                                               *)
(***************************************************************************)
EXTENDS Integers, Sequences, FiniteSets, TLC

VARIABLES
    args,               \* the constructor call: <<api_token, env, timeout, remove_on_done, sync_execution>>
    source,             \* the config record _from_config built the executor from, NoRecord otherwise
    constructed,        \* "ok", or the ValueError message __init__ raised
    _api_token,         \* self._api_token
    _timeout,           \* self._timeout (seconds)
    _remove_on_done,    \* self._remove_on_done
    _sync_execution,    \* self._sync_execution
    _started,           \* self._started
    _runner,            \* self._runner: 0 is None, n > 0 the n-th YepCodeRun built
    handles,            \* number of YepCodeRun objects constructed so far
    scope,              \* "out" / "in": inside an `async with executor` body
    lifecycle_error,    \* what the last start/stop/restart/scope hook raised, "" if nothing
    last_op,            \* the lifecycle method that ran last, "" once the coroutine has resumed since
    pc,                 \* execute_code_blocks: "idle", "run", "wait", "done"
    code_blocks,        \* the argument of the current call
    cancelled,          \* cancellation_token.is_cancelled() of the current call
    idx,                \* 1-based position of code_block in code_blocks
    outputs,            \* local: outputs
    last_execution_id,  \* local: last_execution_id
    executions,         \* the remote executions created by this call, in order
    submitted,          \* what runner.run received in this call, in order
    inflight,           \* remote calls running in a worker thread
    result,             \* what the call returned or raised
    ending              \* why and at which block the call ended

config == <<constructed, _api_token, _timeout, _remove_on_done, _sync_execution>>
lifecycle == <<_started, _runner, handles, scope, lifecycle_error>>
call == <<pc, code_blocks, cancelled, idx, outputs, last_execution_id,
          executions, submitted, inflight, result, ending>>
origin == <<args, source>>
vars == <<origin, config, lifecycle, last_op, call>>

----------------------------------------------------------------------------
(* Bounds of the model. *)

\* longest code_blocks list passed to execute_code_blocks
MaxBlocks == 2
\* YepCodeRun handles that start() may construct in one behaviour
MaxHandles == 2

----------------------------------------------------------------------------
(* Python values.  Optional strings, ints, bools and dicts are records     *)
(* [t, n, s]: t the type, n the number of an int or bool, s the text of a  *)
(* str (for a dict, the value under its single key 'data'; "" is {}).      *)

PyNone == [t |-> "none", n |-> 0, s |-> ""]
PyS(s) == [t |-> "str", n |-> 0, s |-> s]
PyInt(n) == [t |-> "int", n |-> n, s |-> ""]
PyBool(b) == [t |-> "bool", n |-> IF b THEN 1 ELSE 0, s |-> ""]
PyDict(s) == [t |-> "dict", n |-> 0, s |-> s]

\* bool(v)
PyTruthy(v) ==
    CASE v.t = "none" -> FALSE
      [] v.t = "str"  -> v.s # ""
      [] v.t = "int"  -> v.n # 0
      [] v.t = "bool" -> v.n # 0
      [] v.t = "dict" -> v.s # ""

Digit(d) ==
    CASE d = 0 -> "0" [] d = 1 -> "1" [] d = 2 -> "2" [] d = 3 -> "3"
      [] d = 4 -> "4" [] d = 5 -> "5" [] d = 6 -> "6" [] d = 7 -> "7"
      [] d = 8 -> "8" [] d = 9 -> "9"

RECURSIVE NatStr(_)
NatStr(n) == IF n < 10 THEN Digit(n) ELSE NatStr(n \div 10) \o Digit(n % 10)

\* str(v), as an f-string formats it
PyStr(v) ==
    CASE v.t = "none" -> "None"
      [] v.t = "str"  -> v.s
      [] v.t = "int"  -> IF v.n < 0 THEN "-" \o NatStr(-v.n) ELSE NatStr(v.n)
      [] v.t = "bool" -> IF v.n # 0 THEN "True" ELSE "False"
      [] v.t = "dict" -> IF v.s = "" THEN "{}" ELSE "{'data': '" \o v.s \o "'}"

\* a or b
PyOr(a, b) == IF PyTruthy(a) THEN a ELSE b

\* sep.join(parts)
RECURSIVE Join(_, _)
Join(sep, parts) ==
    IF parts = <<>> THEN ""
    ELSE IF Len(parts) = 1 THEN parts[1]
    ELSE parts[1] \o sep \o Join(sep, Tail(parts))

----------------------------------------------------------------------------
(* Language labels are sequences of one-character strings, so that          *)
(* str.lower() is computed character by character.                          *)

LowerChar(c) ==
    CASE c = "A" -> "a" [] c = "B" -> "b" [] c = "C" -> "c" [] c = "D" -> "d"
      [] c = "E" -> "e" [] c = "F" -> "f" [] c = "G" -> "g" [] c = "H" -> "h"
      [] c = "I" -> "i" [] c = "J" -> "j" [] c = "K" -> "k" [] c = "L" -> "l"
      [] c = "M" -> "m" [] c = "N" -> "n" [] c = "O" -> "o" [] c = "P" -> "p"
      [] c = "Q" -> "q" [] c = "R" -> "r" [] c = "S" -> "s" [] c = "T" -> "t"
      [] c = "U" -> "u" [] c = "V" -> "v" [] c = "W" -> "w" [] c = "X" -> "x"
      [] c = "Y" -> "y" [] c = "Z" -> "z" [] OTHER -> c

\* language.lower()
Lower(chars) == [k \in 1..Len(chars) |-> LowerChar(chars[k])]

\* the str made of the characters
RECURSIVE Text(_)
Text(chars) == IF chars = <<>> THEN "" ELSE chars[1] \o Text(Tail(chars))

\* _normalize_language as it would be without language.lower()
_normalize_language_as_given(language) ==
    LET lang == Text(language) IN
    IF lang \in {"js", "javascript"} THEN "javascript"
    ELSE IF lang \in {"python", "py"} THEN "python"
    ELSE lang

\* YepCodeCodeExecutor._normalize_language
_normalize_language(language) ==
    LET lang == Text(Lower(language)) IN
    IF lang \in {"js", "javascript"} THEN "javascript"
    ELSE IF lang \in {"python", "py"} THEN "python"
    ELSE lang

\* YepCodeCodeExecutor.SUPPORTED_LANGUAGES
SUPPORTED_LANGUAGES == <<"python", "javascript">>

----------------------------------------------------------------------------
(* Construction. *)

TimeoutError == "Timeout must be greater than or equal to 1."
TokenError ==
    "YepCode API token is required. Provide it via api_token parameter or YEPCODE_API_TOKEN environment variable."

\* __init__ as it would be with the check `timeout < 0`
__init___accepts_zero(api_token, env, timeout, remove_on_done, sync_execution) ==
    LET failed(msg) == [constructed |-> msg, _api_token |-> PyNone, _timeout |-> 0,
                        _remove_on_done |-> FALSE, _sync_execution |-> FALSE]
        token == PyOr(api_token, env)
    IN  IF timeout < 0 THEN failed(TimeoutError)
        ELSE IF ~PyTruthy(token) THEN failed(TokenError)
        ELSE [constructed |-> "ok", _api_token |-> token, _timeout |-> timeout,
              _remove_on_done |-> remove_on_done, _sync_execution |-> sync_execution]

\* __init__ as it would be with `os.getenv("YEPCODE_API_TOKEN") or api_token`
__init___env_first(api_token, env, timeout, remove_on_done, sync_execution) ==
    LET failed(msg) == [constructed |-> msg, _api_token |-> PyNone, _timeout |-> 0,
                        _remove_on_done |-> FALSE, _sync_execution |-> FALSE]
        token == PyOr(env, api_token)
    IN  IF timeout < 1 THEN failed(TimeoutError)
        ELSE IF ~PyTruthy(token) THEN failed(TokenError)
        ELSE [constructed |-> "ok", _api_token |-> token, _timeout |-> timeout,
              _remove_on_done |-> remove_on_done, _sync_execution |-> sync_execution]

\* YepCodeCodeExecutor.__init__: the fields of the new object, or the ValueError
\* it raises.  env is os.getenv("YEPCODE_API_TOKEN") after load_dotenv().
__init__(api_token, env, timeout, remove_on_done, sync_execution) ==
    LET failed(msg) == [constructed |-> msg, _api_token |-> PyNone, _timeout |-> 0,
                        _remove_on_done |-> FALSE, _sync_execution |-> FALSE]
        token == PyOr(api_token, env)
    IN  IF timeout < 1 THEN failed(TimeoutError)
        ELSE IF ~PyTruthy(token) THEN failed(TokenError)
        ELSE [constructed |-> "ok", _api_token |-> token, _timeout |-> timeout,
              _remove_on_done |-> remove_on_done, _sync_execution |-> sync_execution]

\* the constructor calls the behaviours start from:
\* <<api_token, env, timeout, remove_on_done, sync_execution>>
ConstructorCalls ==
    { <<PyS("tok"), PyNone, 60, FALSE, TRUE>>,
      <<PyNone, PyS("envtok"), 1, TRUE, FALSE>>,
      <<PyNone, PyNone, 60, FALSE, TRUE>>,
      <<PyS("tok"), PyS("envtok"), 0, FALSE, TRUE>> }

\* every way to give or omit the token and the environment variable, with
\* timeouts on both sides of the limit
TokenArguments == {PyNone, PyS(""), PyS("tok")}
TokenEnvironments == {PyNone, PyS(""), PyS("envtok")}
TimeoutArguments == {-1, 0, 1, 60}
AllConstructorCalls ==
    TokenArguments \X TokenEnvironments \X TimeoutArguments \X BOOLEAN \X BOOLEAN

\* YepCodeCodeExecutorConfig: the records a caller can build or _to_config returns
ConfigRecords ==
    [api_token : TokenArguments \cup {PyS("envtok")}, timeout : TimeoutArguments,
     remove_on_done : BOOLEAN, sync_execution : BOOLEAN]

\* YepCodeCodeExecutor._to_config, of the executor in the current state
_to_config ==
    [api_token |-> _api_token, timeout |-> _timeout,
     remove_on_done |-> _remove_on_done, sync_execution |-> _sync_execution]

\* _from_config as it would be without `timeout=config.timeout`: the default 60 applies
_from_config_default_timeout(record, env) ==
    __init__(record.api_token, env, 60, record.remove_on_done, record.sync_execution)

\* YepCodeCodeExecutor._from_config: cls(api_token=config.api_token, ...)
_from_config(record, env) ==
    __init__(record.api_token, env, record.timeout, record.remove_on_done,
             record.sync_execution)

----------------------------------------------------------------------------
(* Lifecycle.  The operators work on the record self of the lifecycle       *)
(* fields; err is the RuntimeError the method raised ("" when it returned). *)
(* The methods may run while a call of execute_code_blocks is suspended in  *)
(* a remote call; a call that has ended (pc = "done") first hands its       *)
(* result to the caller (Return).                                           *)

\* the executor as a lifecycle method finds it; calls lists the lifecycle
\* methods that ran on it since, in order
Self ==
    [started |-> _started, runner |-> _runner, handles |-> handles, err |-> "",
     calls |-> <<>>]

\* what YepCodeApiConfig / YepCodeRun may raise
ConstructionFaults == {"Config error"}

\* start as it would be without `if self._started: return`
start_always_builds(self, fault) ==
    IF fault # "" THEN
        [self EXCEPT !.err = "Failed to initialize YepCode runner: " \o fault,
                     !.calls = Append(@, "start")]
    ELSE [started |-> TRUE, runner |-> self.handles + 1,
          handles |-> self.handles + 1, err |-> "",
          calls |-> Append(self.calls, "start")]

\* start as it would be with `self._started = True` set before the handle is built
start_marks_started_first(self, fault) ==
    IF self.started THEN [self EXCEPT !.err = "", !.calls = Append(@, "start")]
    ELSE IF fault # "" THEN
        [self EXCEPT !.started = TRUE,
                     !.err = "Failed to initialize YepCode runner: " \o fault,
                     !.calls = Append(@, "start")]
    ELSE [started |-> TRUE, runner |-> self.handles + 1,
          handles |-> self.handles + 1, err |-> "",
          calls |-> Append(self.calls, "start")]

\* YepCodeCodeExecutor.start; fault is "" when YepCodeApiConfig and YepCodeRun succeed
start(self, fault) ==
    IF self.started THEN [self EXCEPT !.err = "", !.calls = Append(@, "start")]
    ELSE IF fault # "" THEN
        [self EXCEPT !.err = "Failed to initialize YepCode runner: " \o fault,
                     !.calls = Append(@, "start")]
    ELSE [started |-> TRUE, runner |-> self.handles + 1,
          handles |-> self.handles + 1, err |-> "",
          calls |-> Append(self.calls, "start")]

\* stop as it would be without `self._runner = None`
stop_keeps_runner(self) ==
    IF ~self.started THEN [self EXCEPT !.err = "", !.calls = Append(@, "stop")]
    ELSE [self EXCEPT !.started = FALSE, !.err = "", !.calls = Append(@, "stop")]

\* stop as it would be if it refused an executor that is not started
stop_raises_when_stopped(self) ==
    IF ~self.started THEN
        [self EXCEPT !.err = "Executor is not started", !.calls = Append(@, "stop")]
    ELSE [self EXCEPT !.runner = 0, !.started = FALSE, !.err = "",
                      !.calls = Append(@, "stop")]

\* YepCodeCodeExecutor.stop
stop(self) ==
    IF ~self.started THEN [self EXCEPT !.err = "", !.calls = Append(@, "stop")]
    ELSE [self EXCEPT !.runner = 0, !.started = FALSE, !.err = "",
                      !.calls = Append(@, "stop")]

\* restart as it would be without the stop
restart_without_stop(self, fault) == start(self, fault)

\* YepCodeCodeExecutor.restart
restart(self, fault) ==
    start(IF self.started THEN stop(self) ELSE self, fault)

\* YepCodeCodeExecutor.__aenter__: await self.start()
__aenter__(self, fault) == start(self, fault)

\* __aexit__ as it would be if it released the handle only after a body that completed
__aexit___skips_when_raised(self, body_raised) ==
    IF body_raised THEN self ELSE stop(self)

\* YepCodeCodeExecutor.__aexit__: await self.stop(), whatever exc_type is
__aexit__(self, body_raised) == stop(self)

\* the lifecycle fields take the values of the record s
Becomes(s) ==
    /\ _started' = s.started
    /\ _runner' = s.runner
    /\ handles' = s.handles
    /\ lifecycle_error' = s.err

\* a start that reaches YepCodeRun(config) builds a handle the model can still count
CanBuild(self, fault) == start(self, fault).handles <= MaxHandles

Start ==
    /\ constructed = "ok"
    /\ pc # "done"
    /\ \E fault \in ConstructionFaults \cup {""} :
        /\ CanBuild(Self, fault)
        /\ Becomes(start(Self, fault))
    /\ last_op' = "start"
    /\ UNCHANGED <<origin, config, scope, call>>

Stop ==
    /\ constructed = "ok"
    /\ pc # "done"
    /\ Becomes(stop(Self))
    /\ last_op' = "stop"
    /\ UNCHANGED <<origin, config, scope, call>>

Restart ==
    /\ constructed = "ok"
    /\ pc # "done"
    /\ \E fault \in ConstructionFaults \cup {""} :
        /\ restart(Self, fault).handles <= MaxHandles
        /\ Becomes(restart(Self, fault))
    /\ last_op' = "restart"
    /\ UNCHANGED <<origin, config, scope, call>>

\* YepCodeCodeExecutor.__aenter__: the body is entered only if start() returned
AEnter ==
    /\ constructed = "ok"
    /\ pc # "done"
    /\ scope = "out"
    /\ \E fault \in ConstructionFaults \cup {""} :
        /\ CanBuild(Self, fault)
        /\ Becomes(__aenter__(Self, fault))
        /\ scope' = IF __aenter__(Self, fault).err = "" THEN "in" ELSE "out"
    /\ last_op' = "aenter"
    /\ UNCHANGED <<origin, config, call>>

\* YepCodeCodeExecutor.__aexit__: runs whether the body completed or raised
AExit ==
    /\ constructed = "ok"
    /\ pc # "done"
    /\ scope = "in"
    /\ \E body_raised \in BOOLEAN :
        /\ Becomes(__aexit__(Self, body_raised))
        /\ scope' = "out"
    /\ last_op' = "aexit"
    /\ UNCHANGED <<origin, config, call>>

----------------------------------------------------------------------------
(* execute_code_blocks: results. *)

\* YepCodeCodeResult(exit_code, output, execution_id)
YepCodeCodeResult(exit_code, output, execution_id) ==
    [kind |-> "returned", exit_code |-> exit_code, output |-> output,
     execution_id |-> execution_id, error |-> ""]

\* the call raised RuntimeError(msg)
Raised(msg) ==
    [kind |-> "raised", exit_code |-> -1, output |-> "",
     execution_id |-> PyNone, error |-> msg]

NoResult ==
    [kind |-> "none", exit_code |-> -1, output |-> "",
     execution_id |-> PyNone, error |-> ""]

NotStartedError == "Executor must be started before executing code blocks."

\* lang not in ["python", "javascript"]
IsSupported(lang) == lang \in {"python", "javascript"}

\* the message built from the normalized label instead of code_block.language
UnsupportedResult_normalized(code_block) ==
    YepCodeCodeResult(1,
        "Unsupported language: " \o _normalize_language(code_block.language)
            \o ". Supported languages: " \o Join(", ", SUPPORTED_LANGUAGES),
        PyNone)

\* the result returned for a block whose language is not supported
UnsupportedResult(code_block) ==
    YepCodeCodeResult(1,
        "Unsupported language: " \o Text(code_block.language)
            \o ". Supported languages: " \o Join(", ", SUPPORTED_LANGUAGES),
        PyNone)

\* f"{log.timestamp} - {log.level}: {log.message}"
LogLine(log) == log.timestamp \o " - " \o log.level \o ": " \o log.message

\* logs_output
LogsOutput(execution) ==
    IF execution.logs # <<>>
    THEN "\n\nExecution logs:\n"
            \o Join("\n", [k \in 1..Len(execution.logs) |-> LogLine(execution.logs[k])])
    ELSE ""

\* the error result built without execution_id=execution.id
ErrorResult_no_id(execution) ==
    YepCodeCodeResult(1,
        "Execution failed with error:\n" \o PyStr(execution.error) \o LogsOutput(execution),
        PyNone)

\* the result returned when execution.error is truthy
ErrorResult(execution) ==
    YepCodeCodeResult(1,
        "Execution failed with error:\n" \o PyStr(execution.error) \o LogsOutput(execution),
        PyS(execution.id))

\* the output as it would be with `if execution.return_value is not None`
BlockOutput_unless_none(execution) ==
    (IF execution.return_value # PyNone
     THEN "Execution result:\n" \o PyStr(execution.return_value)
     ELSE "") \o LogsOutput(execution)

\* output of a block that completed without error, in sync mode
BlockOutput(execution) ==
    (IF PyTruthy(execution.return_value)
     THEN "Execution result:\n" \o PyStr(execution.return_value)
     ELSE "") \o LogsOutput(execution)

\* output of a block in non-sync mode
StartedOutput(execution) == "Execution started with ID: " \o execution.id

\* the result of the except clause with the outputs gathered so far put first
ExceptionResult_with_outputs(e, last_id) ==
    YepCodeCodeResult(1,
        Join("\n===\n", Append(outputs, "Error executing code: " \o e)), last_id)

\* the result of the except clause; e is str(e)
ExceptionResult(e, last_id) ==
    YepCodeCodeResult(1, "Error executing code: " \o e, last_id)

\* the outputs joined with a bare newline
FinalResult_newline(outs, last_id) ==
    YepCodeCodeResult(0, Join("\n", outs), last_id)

\* the result after the loop
FinalResult(outs, last_id) ==
    YepCodeCodeResult(0, Join("\n===\n", outs), last_id)

\* str(e) of the AttributeError that self._runner.run raises when _runner is None
NoRunnerError == "'NoneType' object has no attribute 'run'"

----------------------------------------------------------------------------
(* execute_code_blocks: the remote collaborator and the inputs. *)

Codes == {"print(1)"}
Languages == { <<"p","y","t","h","o","n">>, <<"J","S">>, <<"P","H","P">> }
CodeBlocks == [code : Codes, language : Languages]

\* the capital of a letter of the four aliases
Capital(c) ==
    CASE c = "a" -> "A" [] c = "c" -> "C" [] c = "h" -> "H" [] c = "i" -> "I"
      [] c = "j" -> "J" [] c = "n" -> "N" [] c = "o" -> "O" [] c = "p" -> "P"
      [] c = "r" -> "R" [] c = "s" -> "S" [] c = "t" -> "T" [] c = "v" -> "V"
      [] c = "y" -> "Y" [] OTHER -> c

\* every way to write the characters in small and capital letters
RECURSIVE Casings(_)
Casings(chars) ==
    IF chars = <<>> THEN {<<>>}
    ELSE {<<c>> \o rest : c \in {chars[1], Capital(chars[1])}, rest \in Casings(Tail(chars))}

\* the four labels _normalize_language names
Aliases ==
    { <<"j","s">>, <<"j","a","v","a","s","c","r","i","p","t">>,
      <<"p","y">>, <<"p","y","t","h","o","n">> }

\* labels that are no casing of an alias: other languages, an alias with a
\* character more, an alias with a blank, the empty label
OtherLabels ==
    { <<"P","H","P">>, <<"R","u","b","y">>, <<"j","s","x">>, <<"P","y","3">>,
      <<" ","J","S">>, <<"j","a","v","a">>, <<>> }

\* every label a block is given in the check of the normalization
AllLabels == UNION {Casings(alias) : alias \in Aliases} \cup OtherLabels

RECURSIVE SeqsUpTo(_, _)
SeqsUpTo(S, n) ==
    IF n = 0 THEN {<<>>}
    ELSE LET shorter == SeqsUpTo(S, n - 1) IN
         shorter \cup {Append(q, x) : q \in {r \in shorter : Len(r) = n - 1}, x \in S}

\* the id the remote gives the n-th execution of a call
ExecutionId(n) == "exec-" \o NatStr(n)

\* a RemoteExecution as runner.run returns it
NewExecution(n) ==
    [id |-> ExecutionId(n), done |-> FALSE, error |-> PyNone,
     return_value |-> PyNone, logs |-> <<>>]

\* what the remote may report once the execution is done: no error with any
\* return value and logs, an empty error text, an error with any logs
ReturnValues == {PyNone, PyInt(0), PyDict("x")}
LogLists ==
    { <<>>,
      << [timestamp |-> "t1", level |-> "INFO", message |-> "hi"],
         [timestamp |-> "t2", level |-> "ERROR", message |-> "oops"] >> }
Completions ==
    [error : {PyNone}, return_value : ReturnValues, logs : LogLists]
    \cup [error : {PyS("")}, return_value : {PyNone}, logs : {<<>>}]
    \cup [error : {PyS("boom")}, return_value : {PyNone}, logs : LogLists]
\* return values of every kind, falsy and truthy, for the check of the output text
AllReturnValues ==
    { PyNone, PyInt(0), PyInt(7), PyBool(FALSE), PyBool(TRUE),
      PyS(""), PyS("ok"), PyDict(""), PyDict("x") }
AllCompletions ==
    [error : {PyNone}, return_value : AllReturnValues, logs : LogLists]
    \cup [error : {PyS("boom")}, return_value : {PyNone}, logs : {<<>>}]
\* what runner.run or wait_for_done may raise, as str(e)
RemoteFaults == {"Network error"}

\* the options dict passed to runner.run, with the code and the handle used
Submission(blocks, k, lang) ==
    [block |-> k, code |-> blocks[k].code, language |-> lang,
     removeOnDone |-> _remove_on_done, timeout |-> _timeout * 1000,
     runner |-> _runner]

----------------------------------------------------------------------------
(* execute_code_blocks: the steps. *)

NoEnding == [why |-> "", block |-> 0, fault |-> ""]

\* the call ends as it would if the except clause released the handle
Finish_releases_on_fault(res, why, fault, k, outs, last_id, subs) ==
    /\ pc' = "done"
    /\ result' = res
    /\ ending' = [why |-> why, block |-> k, fault |-> fault]
    /\ idx' = k
    /\ outputs' = outs
    /\ last_execution_id' = last_id
    /\ submitted' = subs
    /\ inflight' = {}
    /\ cancelled' = FALSE
    /\ IF fault # "" THEN /\ _started' = FALSE
                          /\ _runner' = 0
                          /\ UNCHANGED <<handles, scope, lifecycle_error>>
       ELSE UNCHANGED lifecycle
    /\ UNCHANGED <<origin, config>>

\* the call ends with res; the token of the call is of no further interest.
\* No path through execute_code_blocks assigns a field of self.
Finish(res, why, fault, k, outs, last_id, subs) ==
    /\ pc' = "done"
    /\ result' = res
    /\ ending' = [why |-> why, block |-> k, fault |-> fault]
    /\ idx' = k
    /\ outputs' = outs
    /\ last_execution_id' = last_id
    /\ submitted' = subs
    /\ inflight' = {}
    /\ cancelled' = FALSE
    /\ UNCHANGED <<origin, config, lifecycle>>

\* the loop as it would be if it checked the handle before each submission and
\* raised the "must be started" error
Iterate_raises_when_stopped(blocks, k, outs, last_id, subs) ==
    IF k > Len(blocks) THEN
        Finish(FinalResult(outs, last_id), "complete", "", k - 1, outs, last_id, subs)
    ELSE LET lang == _normalize_language(blocks[k].language) IN
        IF ~IsSupported(lang) THEN
            Finish(UnsupportedResult(blocks[k]), "unsupported", "", k, outs, last_id, subs)
        ELSE IF _runner = 0 THEN
            Finish(Raised(NotStartedError), "not_started", "", k, outs, last_id, subs)
        ELSE
            /\ pc' = "run"
            /\ idx' = k
            /\ outputs' = outs
            /\ last_execution_id' = last_id
            /\ submitted' = Append(subs, Submission(blocks, k, lang))
            /\ inflight' = {[op |-> "run", block |-> k]}
            /\ result' = NoResult
            /\ ending' = NoEnding
            /\ UNCHANGED <<cancelled, origin, config, lifecycle>>

\* control is at the head of the for loop with k - 1 blocks processed: up to the
\* next await of asyncio.to_thread(self._runner.run, ...) or to a return
Iterate(blocks, k, outs, last_id, subs) ==
    IF k > Len(blocks) THEN
        Finish(FinalResult(outs, last_id), "complete", "", k - 1, outs, last_id, subs)
    ELSE LET lang == _normalize_language(blocks[k].language) IN
        IF ~IsSupported(lang) THEN
            Finish(UnsupportedResult(blocks[k]), "unsupported", "", k, outs, last_id, subs)
        ELSE IF _runner = 0 THEN
            Finish(ExceptionResult(NoRunnerError, last_id), "run_fault", NoRunnerError, k, outs, last_id, subs)
        ELSE
            /\ pc' = "run"
            /\ idx' = k
            /\ outputs' = outs
            /\ last_execution_id' = last_id
            /\ submitted' = Append(subs, Submission(blocks, k, lang))
            /\ inflight' = {[op |-> "run", block |-> k]}
            /\ result' = NoResult
            /\ ending' = NoEnding
            /\ UNCHANGED <<cancelled, origin, config, lifecycle>>

\* an empty list answered as a failure
EmptyResult_failed == YepCodeCodeResult(1, "No code blocks to execute", PyNone)

\* the result returned for an empty list
EmptyResult == YepCodeCodeResult(0, "", PyNone)

\* the two checks in the other order: the empty list returns before the
\* started check
EntryCheck_empty_first(started, blocks) ==
    IF blocks = <<>> THEN "empty"
    ELSE IF ~started THEN "not_started"
    ELSE "loop"

\* the two checks before the loop: which way the call goes
EntryCheck(started, blocks) ==
    IF ~started THEN "not_started"
    ELSE IF blocks = <<>> THEN "empty"
    ELSE "loop"

\* execute_code_blocks is called with one of the lists
ExecCallWith(lists) ==
    /\ constructed = "ok"
    /\ pc = "idle"
    /\ \E blocks \in lists :
        /\ code_blocks' = blocks
        /\ executions' = <<>>
        /\ CASE EntryCheck(_started, blocks) = "not_started" ->
                    Finish(Raised(NotStartedError), "not_started", "", 0, <<>>, PyNone, <<>>)
             [] EntryCheck(_started, blocks) = "empty" ->
                    Finish(EmptyResult, "empty", "", 0, <<>>, PyNone, <<>>)
             [] EntryCheck(_started, blocks) = "loop" ->
                    Iterate(blocks, 1, <<>>, PyNone, <<>>)
    /\ UNCHANGED last_op

\* execute_code_blocks is called
ExecCall == ExecCallWith(SeqsUpTo(CodeBlocks, MaxBlocks))

\* the assignment to last_execution_id is missing
RecordedId_unrecorded(execution, last_id) == last_id

\* last_execution_id = execution.id, right after runner.run returned
RecordedId(execution, last_id) == PyS(execution.id)

\* the coroutine never awaits execution.wait_for_done
WaitsForDone_never(sync_execution) == FALSE

\* every execution is waited for, whatever sync_execution says
WaitsForDone_always(sync_execution) == TRUE

\* if self._sync_execution: the coroutine awaits execution.wait_for_done
WaitsForDone(sync_execution) == sync_execution

\* execution.error is never looked at
IsError_never(execution) == FALSE

\* if execution.error:
IsError(execution) == PyTruthy(execution.error)

\* asyncio.to_thread(self._runner.run, ...) returns the execution
RunReturns ==
    /\ pc = "run"
    /\ LET execution == NewExecution(Len(executions) + 1) IN
        /\ executions' = Append(executions, execution)
        /\ IF WaitsForDone(_sync_execution) THEN
                /\ pc' = "wait"
                /\ last_execution_id' = RecordedId(execution, last_execution_id)
                /\ inflight' = {[op |-> "wait_for_done", block |-> idx]}
                /\ UNCHANGED <<idx, outputs, submitted, result, ending, cancelled,
                               origin, config, lifecycle>>
           ELSE Iterate(code_blocks, idx + 1, Append(outputs, StartedOutput(execution)),
                        RecordedId(execution, last_execution_id), submitted)
    /\ last_op' = ""
    /\ UNCHANGED code_blocks

\* asyncio.to_thread(self._runner.run, ...) raises
RunRaises ==
    /\ pc = "run"
    /\ \E e \in RemoteFaults :
        Finish(ExceptionResult(e, last_execution_id), "run_fault", e, idx,
               outputs, last_execution_id, submitted)
    /\ last_op' = ""
    /\ UNCHANGED <<code_blocks, executions>>

\* asyncio.to_thread(execution.wait_for_done) returns: the execution is done,
\* in one of the ways
WaitReturnsWith(completions) ==
    /\ pc = "wait"
    /\ \E done \in completions :
        LET n == Len(executions)
            execution == [executions[n] EXCEPT !.done = TRUE, !.error = done.error,
                            !.return_value = done.return_value, !.logs = done.logs]
        IN  /\ executions' = [executions EXCEPT ![n] = execution]
            /\ IF IsError(execution) THEN
                    Finish(ErrorResult(execution), "error", "", idx,
                           outputs, last_execution_id, submitted)
               ELSE Iterate(code_blocks, idx + 1, Append(outputs, BlockOutput(execution)),
                            last_execution_id, submitted)
    /\ last_op' = ""
    /\ UNCHANGED code_blocks

\* asyncio.to_thread(execution.wait_for_done) returns
WaitReturns == WaitReturnsWith(Completions)

\* asyncio.to_thread(execution.wait_for_done) raises
WaitRaises ==
    /\ pc = "wait"
    /\ \E e \in RemoteFaults :
        Finish(ExceptionResult(e, last_execution_id), "wait_fault", e, idx,
               outputs, last_execution_id, submitted)
    /\ last_op' = ""
    /\ UNCHANGED <<code_blocks, executions>>

\* the caller receives the result or the error; the frame of the call is gone
Return ==
    /\ pc = "done"
    /\ pc' = "idle"
    /\ code_blocks' = <<>>
    /\ cancelled' = FALSE
    /\ idx' = 0
    /\ outputs' = <<>>
    /\ last_execution_id' = PyNone
    /\ executions' = <<>>
    /\ submitted' = <<>>
    /\ inflight' = {}
    /\ result' = NoResult
    /\ ending' = NoEnding
    /\ UNCHANGED <<origin, config, lifecycle, last_op>>

\* the caller cancels the token of the call in progress; the coroutine never
\* reads the token and links no future to it
Cancel ==
    /\ pc \in {"run", "wait"}
    /\ ~cancelled
    /\ cancelled' = TRUE
    /\ UNCHANGED <<origin, config, lifecycle, last_op, pc, code_blocks, idx, outputs,
                   last_execution_id, executions, submitted, inflight, result, ending>>

----------------------------------------------------------------------------
(* The specification. *)

\* the executor right after a constructor call, one of calls
InitFrom(calls) ==
    /\ args \in calls
    /\ source = <<>>
    /\ LET new == __init__(args[1], args[2], args[3], args[4], args[5]) IN
        /\ constructed = new.constructed
        /\ _api_token = new._api_token
        /\ _timeout = new._timeout
        /\ _remove_on_done = new._remove_on_done
        /\ _sync_execution = new._sync_execution
    /\ _started = FALSE
    /\ _runner = 0
    /\ handles = 0
    /\ scope = "out"
    /\ lifecycle_error = ""
    /\ last_op = ""
    /\ pc = "idle"
    /\ code_blocks = <<>>
    /\ cancelled = FALSE
    /\ idx = 0
    /\ outputs = <<>>
    /\ last_execution_id = PyNone
    /\ executions = <<>>
    /\ submitted = <<>>
    /\ inflight = {}
    /\ result = NoResult
    /\ ending = NoEnding

\* sync_execution is false: nothing waits for the executions that were started,
\* and the remote finishes one of them with an error while the call goes on or
\* after it has returned
RemoteFails ==
    /\ ~_sync_execution
    /\ pc \in {"run", "done"}
    /\ \E j \in 1..Len(executions) :
        /\ ~executions[j].done
        /\ executions' = [executions EXCEPT ![j] =
                              [@ EXCEPT !.done = TRUE, !.error = PyS("boom")]]
    /\ UNCHANGED <<origin, config, lifecycle, last_op, pc, code_blocks, cancelled, idx,
                   outputs, last_execution_id, submitted, inflight, result, ending>>

Init == InitFrom(ConstructorCalls)

Next ==
    \/ Start
    \/ Stop
    \/ Restart
    \/ AEnter
    \/ AExit
    \/ ExecCall
    \/ RunReturns
    \/ RunRaises
    \/ WaitReturns
    \/ WaitRaises
    \/ Return
    \/ Cancel
    \/ RemoteFails

Spec == Init /\ [][Next]_vars

\* an executor is built from a config record with _from_config, in the same
\* environment; the model goes on with the new object
FromConfig ==
    /\ pc = "idle"
    /\ \E record \in ConfigRecords :
        LET new == _from_config(record, args[2]) IN
        /\ args' = <<record.api_token, args[2], record.timeout,
                     record.remove_on_done, record.sync_execution>>
        /\ source' = <<record>>
        /\ constructed' = new.constructed
        /\ _api_token' = new._api_token
        /\ _timeout' = new._timeout
        /\ _remove_on_done' = new._remove_on_done
        /\ _sync_execution' = new._sync_execution
    /\ _started' = FALSE
    /\ _runner' = 0
    /\ scope' = "out"
    /\ lifecycle_error' = ""
    /\ last_op' = ""
    /\ UNCHANGED <<handles, call>>

\* construction and configuration: any constructor call, then _from_config with
\* any config record, and start and stop of the executors built
ConfigNext ==
    \/ FromConfig
    \/ Start
    \/ Stop

ConfigSpec == InitFrom(AllConstructorCalls) /\ [][ConfigNext]_vars

\* execute_code_blocks is called with one block, its label written in any casing
ExecCallLabelled ==
    ExecCallWith({<<block>> : block \in [code : Codes, language : AllLabels]})

\* normalization: a started executor that does not wait for its executions is
\* called with one block at a time, labelled in every way
LanguageNext ==
    \/ Start
    \/ ExecCallLabelled
    \/ RunReturns
    \/ RunRaises
    \/ Return

LanguageSpec ==
    InitFrom({<<PyNone, PyS("envtok"), 1, TRUE, FALSE>>}) /\ [][LanguageNext]_vars

\* execute_code_blocks is called with one or two python blocks
ExecCallPython ==
    ExecCallWith({<<block>> : block \in [code : Codes, language : {<<"p","y">>}]}
                 \cup {<<block, block>> : block \in [code : Codes, language : {<<"p","y">>}]})

\* asyncio.to_thread(execution.wait_for_done) returns, with a return value of any kind
WaitReturnsAny == WaitReturnsWith(AllCompletions)

\* output text: a started executor that waits for its executions is called
\* with python blocks whose executions return values of every kind
OutputNext ==
    \/ Start
    \/ ExecCallPython
    \/ RunReturns
    \/ WaitReturnsAny
    \/ Return

OutputSpec ==
    InitFrom({<<PyS("tok"), PyNone, 60, FALSE, TRUE>>}) /\ [][OutputNext]_vars

TypeOK ==
    /\ _started \in BOOLEAN
    /\ _runner \in 0..handles
    /\ pc \in {"idle", "run", "wait", "done"}
    /\ Len(code_blocks) <= MaxBlocks
    /\ last_op \in {"", "start", "stop", "restart", "aenter", "aexit"}
    /\ source = <<>>

----------------------------------------------------------------------------
(* Properties. *)

\* C1: in every reachable state of a constructed executor the handle _runner is
\* not None exactly when _started is true.
C1_RunnerIffStarted ==
    constructed = "ok" => ((_runner # 0) <=> _started)

\* C1: stopped again after a start, and a later start whose handle construction failed
C1_Witness ==
    /\ ~_started
    /\ _runner = 0
    /\ handles = 1
    /\ lifecycle_error # ""

\* C2: a call of execute_code_blocks on an executor that is not started, with any
\* block list, raises the "must be started" error, submits nothing to the remote
\* and leaves the configuration and the lifecycle fields as they were.
C2_NotStartedRaises ==
    [][ (pc = "idle" /\ pc' # "idle" /\ ~_started) =>
            /\ pc' = "done"
            /\ result'.kind = "raised"
            /\ result'.error = NotStartedError
            /\ submitted' = <<>>
            /\ executions' = <<>>
            /\ inflight' = {}
            /\ UNCHANGED <<config, lifecycle>> ]_vars

\* C2: the empty list was passed after a stop and a failed start, and the call raised
C2_Witness ==
    /\ pc = "done"
    /\ result.kind = "raised"
    /\ code_blocks = <<>>
    /\ handles = 1
    /\ lifecycle_error # ""

\* C3: within one call the submissions are the blocks 1, 2, ... in input order,
\* each once; at most one remote call is in a worker thread; and in sync mode
\* every execution but the last has completed its wait_for_done before the next
\* block was submitted.
C3_SequentialSubmission ==
    /\ \A j \in 1..Len(submitted) :
        /\ submitted[j].block = j
        /\ submitted[j].code = code_blocks[j].code
    /\ Cardinality(inflight) <= 1
    /\ (pc \in {"run", "wait"}) <=> (inflight # {})
    /\ Len(executions) <= Len(submitted)
    /\ Len(submitted) <= Len(executions) + 1
    /\ (Len(submitted) = Len(executions) + 1) => pc \in {"run", "done"}
    /\ _sync_execution =>
        \A j \in 1..Len(submitted) - 1 : executions[j].done

\* C3: sync mode, the second block is submitted and its wait is in progress
C3_Witness ==
    /\ _sync_execution
    /\ Len(submitted) = 2
    /\ pc = "wait"
    /\ executions[1].done

\* the position of the first block whose normalized language is not supported,
\* 0 when every block is supported
FirstUnsupported(blocks) ==
    LET bad == {k \in 1..Len(blocks) : ~IsSupported(_normalize_language(blocks[k].language))}
    IN  IF bad = {} THEN 0 ELSE CHOOSE k \in bad : \A m \in bad : k <= m

\* block j of the current call was processed without ending the call: its
\* submission returned an execution and, in sync mode, the execution completed
\* with no error
Processed(j) ==
    /\ j <= Len(executions)
    /\ _sync_execution =>
        /\ executions[j].done
        /\ ~PyTruthy(executions[j].error)

\* C4: when block k is the first block with an unsupported language, no block at
\* k or later is ever submitted; and when the blocks before k were all processed,
\* the call returns exit code 1 with the "Unsupported language" message naming
\* the label as it was given, after submitting exactly the blocks before k.
C4_UnsupportedStops ==
    LET k == FirstUnsupported(code_blocks) IN
    k > 0 =>
        /\ \A j \in 1..Len(submitted) : submitted[j].block < k
        /\ (pc = "done" /\ result.kind = "returned" /\ \A j \in 1..(k - 1) : Processed(j)) =>
            /\ result.exit_code = 1
            /\ result.output = "Unsupported language: " \o Text(code_blocks[k].language)
                                \o ". Supported languages: python, javascript"
            /\ Len(submitted) = k - 1
            /\ \A j \in 1..(k - 1) : submitted[j].block = j

\* C4: the second block is "PHP", the first was processed, and the call has ended
C4_Witness ==
    /\ pc = "done"
    /\ result.kind = "returned"
    /\ FirstUnsupported(code_blocks) = 2
    /\ Processed(1)
    /\ Len(submitted) = 1

\* C5 (as claimed): the unsupported-language result carries no execution id when
\* nothing was submitted before it, and the id of the last submitted execution
\* otherwise.
C5_UnsupportedKeepsId ==
    LET k == FirstUnsupported(code_blocks) IN
    (k > 0 /\ pc = "done" /\ result.kind = "returned" /\ \A j \in 1..(k - 1) : Processed(j)) =>
        result.execution_id =
            IF executions = <<>> THEN PyNone
            ELSE PyS(executions[Len(executions)].id)

\* the text of a non-empty execution.error
NonEmptyError(execution) ==
    /\ execution.done
    /\ execution.error.t = "str"
    /\ execution.error.s # ""

\* the log lines, built from the last line backwards
RECURSIVE ExpectedLogLines(_)
ExpectedLogLines(logs) ==
    LET n == Len(logs)
        line == logs[n].timestamp \o " - " \o logs[n].level \o ": " \o logs[n].message
    IN  IF n = 1 THEN line ELSE ExpectedLogLines(SubSeq(logs, 1, n - 1)) \o "\n" \o line

ExpectedLogsSuffix(logs) ==
    IF Len(logs) = 0 THEN "" ELSE "\n\nExecution logs:\n" \o ExpectedLogLines(logs)

\* C6: in sync mode, once an execution has completed with a non-empty error no
\* further block is submitted, and the call returns exit code 1, the text
\* "Execution failed with error:\n<error>" followed by the logs suffix, and the
\* id of that execution.
C6_ExecutionErrorStops ==
    _sync_execution =>
        /\ \A j \in 1..Len(executions) :
            NonEmptyError(executions[j]) => (j = Len(executions) /\ Len(submitted) = j)
        /\ (pc = "done" /\ executions # <<>> /\ NonEmptyError(executions[Len(executions)])) =>
            LET execution == executions[Len(executions)] IN
            /\ result.kind = "returned"
            /\ result.exit_code = 1
            /\ result.output = "Execution failed with error:\n" \o execution.error.s
                                \o ExpectedLogsSuffix(execution.logs)
            /\ result.execution_id = PyS(execution.id)

\* C6: the second block failed with "boom" and logs
C6_Witness ==
    /\ pc = "done"
    /\ _sync_execution
    /\ Len(executions) = 2
    /\ NonEmptyError(executions[2])
    /\ executions[2].logs # <<>>

\* C7: when the submission or the wait of block k raises, the call returns (it
\* does not raise) exit code 1 and "Error executing code: <message>", with the
\* id of the last execution whose submission returned (block k's when the wait
\* raised, block k-1's when the submission raised, none when nothing returned),
\* and no block after k was submitted.
C7_FaultIsCaught ==
    (pc = "done" /\ ending.why \in {"run_fault", "wait_fault"}) =>
        LET k == ending.block IN
        /\ result.kind = "returned"
        /\ result.exit_code = 1
        /\ result.output = "Error executing code: " \o ending.fault
        /\ \A j \in 1..Len(submitted) : submitted[j].block <= k
        /\ IF ending.why = "wait_fault"
           THEN /\ Len(executions) = k
                /\ result.execution_id = PyS(executions[k].id)
           ELSE /\ Len(executions) = k - 1
                /\ result.execution_id =
                        IF k = 1 THEN PyNone ELSE PyS(executions[k - 1].id)

\* C7: the wait of the second block raised
C7_Witness ==
    /\ pc = "done"
    /\ ending.why = "wait_fault"
    /\ ending.block = 2
    /\ ending.fault = "Network error"

\* C8 (as claimed): once the token is cancelled while block idx is in a remote
\* call, no further block is submitted, and when block idx has been processed
\* with blocks left the call ends with a cancellation error.
C8_CancellationHonored ==
    [][ (cancelled /\ pc \in {"run", "wait"}) =>
            /\ Len(submitted') <= Len(submitted)
            /\ ( /\ pc' = "done"
                 /\ idx < Len(code_blocks)
                 /\ Len(executions') >= idx
                 /\ _sync_execution =>
                        /\ executions'[idx].done
                        /\ ~PyTruthy(executions'[idx].error) )
                => ending'.why = "cancelled" ]_vars

\* every block of the call has a supported language, was submitted without a
\* fault and, in sync mode, completed without error
AllBlocksSucceeded ==
    /\ FirstUnsupported(code_blocks) = 0
    /\ Len(executions) = Len(code_blocks)
    /\ \A j \in 1..Len(code_blocks) : Processed(j)

\* remote calls the coroutine still has to await before the loop is over
Remaining == 2 * (Len(code_blocks) - idx) + (IF pc = "run" THEN 1 ELSE 0)

\* C9: a call on a started executor never raises; every step of a call in
\* progress ends it or leaves fewer remote calls to await, so it ends by
\* returning; and the result has exit code 0 exactly when every block had a
\* supported language, was submitted without fault and (sync mode) completed
\* without error, and exit code 1 otherwise.
C9_ReturnsNeverRaises ==
    /\ [][ ((pc = "idle" /\ _started) \/ pc \in {"run", "wait"}) =>
                result'.kind # "raised" ]_vars
    /\ [][ (pc \in {"run", "wait"} /\ <<pc, idx>>' # <<pc, idx>>) =>
                (pc' = "done" \/ (pc' \in {"run", "wait"} /\ Remaining' < Remaining)) ]_vars
    /\ [](pc = "done" <=> result.kind \in {"returned", "raised"})
    /\ []((pc = "done" /\ result.kind = "returned") =>
                /\ result.exit_code \in {0, 1}
                /\ (result.exit_code = 0) <=> AllBlocksSucceeded)

\* C9: a call on a started executor ended with exit code 1 after one good block
C9_Witness ==
    /\ pc = "done"
    /\ result.kind = "returned"
    /\ result.exit_code = 1
    /\ Len(code_blocks) = 2
    /\ Processed(1)
    /\ ~AllBlocksSucceeded

\* the output text of block j: the sync text of its completed execution, or the
\* "started" text in non-sync mode
ExpectedBlockText(j) ==
    IF _sync_execution THEN BlockOutput(executions[j]) ELSE StartedOutput(executions[j])

\* the texts of blocks 1..n with "\n===\n" between them, built from the last backwards
RECURSIVE ExpectedOutput(_)
ExpectedOutput(n) ==
    IF n = 0 THEN ""
    ELSE IF n = 1 THEN ExpectedBlockText(1)
    ELSE ExpectedOutput(n - 1) \o "\n===\n" \o ExpectedBlockText(n)

\* C10: when all n >= 1 blocks were processed, the call returns exit code 0, the
\* n block texts in input order joined by "\n===\n" (one segment per block) and
\* the id of the execution of the last block.
C10_AllBlocksJoined ==
    (pc = "done" /\ Len(code_blocks) >= 1 /\ AllBlocksSucceeded) =>
        LET n == Len(code_blocks) IN
        /\ result.kind = "returned"
        /\ result.exit_code = 0
        /\ Len(outputs) = n
        /\ \A j \in 1..n : outputs[j] = ExpectedBlockText(j)
        /\ result.output = ExpectedOutput(n)
        /\ result.execution_id = PyS(executions[n].id)

\* C10: two blocks with different texts were processed in sync mode
C10_Witness ==
    /\ pc = "done"
    /\ _sync_execution
    /\ Len(code_blocks) = 2
    /\ AllBlocksSucceeded
    /\ outputs[1] # outputs[2]
    /\ outputs[2] # ""

\* C11: with sync_execution false the call never awaits wait_for_done and never
\* reads an execution's error: every submission that returned contributes exactly
\* "Execution started with ID: <id>", and when all blocks have supported languages
\* and every submission returned, the result is exit code 0 with these lines and
\* the last id, whatever the remote does with the executions afterwards.
C11_AsyncNeverWaits ==
    (constructed = "ok" /\ ~_sync_execution) =>
        /\ pc # "wait"
        /\ \A op \in inflight : op.op # "wait_for_done"
        /\ Len(outputs) = Len(executions)
        /\ \A j \in 1..Len(executions) :
               outputs[j] = "Execution started with ID: " \o executions[j].id
        /\ (pc = "done" /\ result.kind = "returned" /\ Len(code_blocks) >= 1
              /\ FirstUnsupported(code_blocks) = 0
              /\ Len(executions) = Len(code_blocks)) =>
               /\ result.exit_code = 0
               /\ result.output = Join("\n===\n", outputs)
               /\ result.execution_id = PyS(executions[Len(executions)].id)

\* C11: two blocks were started without waiting, the call returned exit code 0,
\* and the remote has finished the first execution with an error
C11_Witness ==
    /\ pc = "done"
    /\ ~_sync_execution
    /\ Len(code_blocks) = 2
    /\ Len(executions) = 2
    /\ result.kind = "returned"
    /\ result.exit_code = 0
    /\ executions[1].done
    /\ PyTruthy(executions[1].error)

\* C12: a call on a started executor with an empty list of blocks returns at
\* once with exit code 0, an empty output and no execution id, and nothing is
\* submitted to the remote.
C12_EmptyListReturnsSuccess ==
    [][ (pc = "idle" /\ pc' # "idle" /\ _started /\ code_blocks' = <<>>) =>
            /\ pc' = "done"
            /\ result'.kind = "returned"
            /\ result'.exit_code = 0
            /\ result'.output = ""
            /\ result'.execution_id = PyNone
            /\ submitted' = <<>>
            /\ executions' = <<>>
            /\ inflight' = {} ]_vars

\* C12: the call with an empty list has returned on a started executor
C12_Witness ==
    /\ pc = "done"
    /\ _started
    /\ code_blocks = <<>>
    /\ result.kind = "returned"
    /\ submitted = <<>>

\* C13: start() on an executor that is already started changes nothing: the
\* executor stays started, no handle is constructed and _runner is the handle it
\* was before, and nothing is raised.
C13_StartIdempotent ==
    [][ (_started /\ Start) =>
            /\ _started'
            /\ _runner' = _runner
            /\ _runner' # 0
            /\ handles' = handles
            /\ lifecycle_error' = "" ]_vars

\* C13: start() was called inside the scope, on the executor that entering the
\* scope had started: one handle was constructed in all
C13_Witness ==
    /\ last_op = "start"
    /\ scope = "in"
    /\ _started
    /\ _runner = 1
    /\ handles = 1

\* C14: when the construction of the handle fails inside start(), start raises
\* the RuntimeError that wraps the failure and the executor is left stopped with
\* no handle and no handle counted; a start() after that whose construction
\* succeeds leaves the executor started with a new handle.
C14_FailedStartStaysStopped ==
    /\ [][ (~_started /\ Start /\ lifecycle_error' # "") =>
               /\ \E fault \in ConstructionFaults :
                      lifecycle_error' = "Failed to initialize YepCode runner: " \o fault
               /\ ~_started'
               /\ _runner' = 0
               /\ handles' = handles ]_vars
    /\ [][ (last_op = "start" /\ lifecycle_error # "" /\ Start /\ lifecycle_error' = "") =>
               /\ _started'
               /\ _runner' = handles + 1
               /\ handles' = handles + 1 ]_vars

\* C14: the last lifecycle call was a start() that raised, on an executor that
\* had been started and stopped before
C14_Witness ==
    /\ last_op = "start"
    /\ lifecycle_error = "Failed to initialize YepCode runner: Config error"
    /\ ~_started
    /\ _runner = 0
    /\ handles = 1

\* C15: stop() never raises and makes no remote call; on a stopped executor it
\* changes nothing, on a started executor it drops the handle and leaves the
\* executor stopped. The configuration, the handles constructed so far and the
\* call in progress with its submissions and executions are as they were.
C15_StopIdempotentLocal ==
    [][ Stop =>
            /\ lifecycle_error' = ""
            /\ ~_started'
            /\ _runner' = 0
            /\ (~_started => _runner' = _runner)
            /\ handles' = handles
            /\ UNCHANGED <<config, submitted, executions, inflight, pc, result>> ]_vars

\* C15: stop() was called on an executor that was never started
C15_Witness ==
    /\ last_op = "stop"
    /\ handles = 0
    /\ ~_started
    /\ _runner = 0
    /\ lifecycle_error = ""

\* C16 as stated: every restart() awaits stop() and then start(), whether the
\* executor is started or not, and when the construction of the handle succeeds
\* the executor is started with a new handle.
C16_RestartAlwaysStops ==
    [][ Restart => \E fault \in ConstructionFaults \cup {""} :
            LET after == restart(Self, fault) IN
            /\ after.err = lifecycle_error'
            /\ after.calls = <<"stop", "start">>
            /\ (lifecycle_error' = "") =>
                   (_started' /\ _runner' = handles + 1 /\ _runner' # _runner) ]_vars

\* C16: restart() awaits stop() only when the executor is started, and then
\* start() in both cases; what it leaves is what stop() followed by start()
\* leaves, and when the construction of the handle succeeds the executor is
\* started with a newly constructed handle that is not the handle it had before.
C16_RestartFreshHandle ==
    [][ Restart => \E fault \in ConstructionFaults \cup {""} :
            LET after == restart(Self, fault) IN
            /\ after.calls = IF _started THEN <<"stop", "start">> ELSE <<"start">>
            /\ after.err = lifecycle_error'
            /\ after.started = start(stop(Self), fault).started
            /\ after.runner = start(stop(Self), fault).runner
            /\ after.handles = start(stop(Self), fault).handles
            /\ after.err = start(stop(Self), fault).err
            /\ _started' = after.started
            /\ _runner' = after.runner
            /\ handles' = after.handles
            /\ (lifecycle_error' = "") =>
                   /\ _started'
                   /\ _runner' = handles + 1
                   /\ _runner' # _runner
                   /\ handles' = handles + 1 ]_vars

\* C16: restart() was called on an executor that had never been started and
\* constructed its first handle
C16_Witness ==
    /\ last_op = "restart"
    /\ _started
    /\ _runner = 1
    /\ handles = 1
    /\ lifecycle_error = ""

\* C17: entering the scope awaits start() and the body is entered only when it
\* returned, with the executor started and holding a handle; leaving the scope
\* awaits stop() whether the body completed or raised, so the executor is then
\* stopped and holds no handle.
C17_ScopeStartsAndStops ==
    /\ [][ AEnter => \E fault \in ConstructionFaults \cup {""} :
               LET after == __aenter__(Self, fault) IN
               /\ after.err = lifecycle_error'
               /\ after.calls = <<"start">>
               /\ (scope' = "in") <=> (lifecycle_error' = "")
               /\ (scope' = "in") => (_started' /\ _runner' # 0) ]_vars
    /\ [][ AExit =>
               /\ \A body_raised \in BOOLEAN :
                      __aexit__(Self, body_raised).calls = <<"stop">>
               /\ scope' = "out"
               /\ ~_started'
               /\ _runner' = 0
               /\ lifecycle_error' = "" ]_vars

\* C17: the scope was entered, which constructed the one handle, and has been left
C17_Witness ==
    /\ last_op = "aexit"
    /\ scope = "out"
    /\ ~_started
    /\ _runner = 0
    /\ handles = 1

\* C18 as stated: for every config record from which _from_config builds an
\* executor, _to_config of that executor is the record, field for field.
C18_RoundTripAnyRecord ==
    (source # <<>> /\ constructed = "ok") => _to_config = source[1]

\* C18: for every config record with a non-empty api_token and a timeout >= 1,
\* among them every record _to_config returns, _from_config builds an executor
\* and _to_config of it is the record, field for field, whether the executor is
\* started or not; the record has the four configuration fields and no others.
C18_RoundTripSerialized ==
    /\ (source # <<>> /\ PyTruthy(source[1].api_token) /\ source[1].timeout >= 1) =>
           /\ constructed = "ok"
           /\ _to_config = source[1]
    /\ constructed = "ok" =>
           /\ PyTruthy(_to_config.api_token)
           /\ _to_config.timeout >= 1
           /\ LET again == _from_config(_to_config, args[2]) IN
               /\ again.constructed = "ok"
               /\ again._api_token = _to_config.api_token
               /\ again._timeout = _to_config.timeout
               /\ again._remove_on_done = _to_config.remove_on_done
               /\ again._sync_execution = _to_config.sync_execution
    /\ DOMAIN _to_config = {"api_token", "timeout", "remove_on_done", "sync_execution"}

\* C18: an executor built from a record with timeout 1 is started and holds a
\* handle, and its _to_config is the record
C18_Witness ==
    /\ source # <<>>
    /\ constructed = "ok"
    /\ source[1].timeout = 1
    /\ source[1].remove_on_done
    /\ _to_config = source[1]
    /\ _started
    /\ _runner # 0

\* C19: the constructor raises the timeout ValueError for every timeout < 1 and
\* for no timeout >= 1, where it builds the executor whenever a token is
\* available; a constructed executor has the timeout it was given, which is
\* >= 1, in every state it reaches.
C19_TimeoutValidated ==
    /\ args[3] < 1 => constructed = TimeoutError
    /\ args[3] >= 1 =>
           /\ constructed # TimeoutError
           /\ PyTruthy(PyOr(args[1], args[2])) => constructed = "ok"
    /\ constructed = "ok" =>
           /\ _timeout = args[3]
           /\ _timeout >= 1

\* C19: an executor constructed with the smallest timeout, 1, has been started
C19_Witness ==
    /\ args[3] = 1
    /\ constructed = "ok"
    /\ _timeout = 1
    /\ _started

\* C20: with a valid timeout, a non-empty api_token argument becomes the token
\* whatever YEPCODE_API_TOKEN holds; without one the value of YEPCODE_API_TOKEN
\* becomes the token; with neither the constructor raises the token ValueError.
\* A constructed executor holds a non-empty string, the argument or the
\* environment value, in every state it reaches.
C20_TokenResolution ==
    /\ args[3] >= 1 =>
           /\ PyTruthy(args[1]) => (constructed = "ok" /\ _api_token = args[1])
           /\ (~PyTruthy(args[1]) /\ PyTruthy(args[2])) =>
                  (constructed = "ok" /\ _api_token = args[2])
           /\ (~PyTruthy(args[1]) /\ ~PyTruthy(args[2])) => constructed = TokenError
    /\ constructed = "ok" =>
           /\ _api_token.t = "str"
           /\ _api_token.s # ""
           /\ _api_token \in {args[1], args[2]}

\* C20: both the argument and the environment variable were given, and the
\* started executor holds the argument
C20_Witness ==
    /\ args[1] = PyS("tok")
    /\ args[2] = PyS("envtok")
    /\ constructed = "ok"
    /\ _api_token = PyS("tok")
    /\ _started

\* the characters are a casing of the alias
IsCasingOf(chars, alias) ==
    /\ Len(chars) = Len(alias)
    /\ \A k \in 1..Len(alias) : chars[k] \in {alias[k], Capital(alias[k])}

\* what the normalization of a label is to be: the canonical name for a casing
\* of an alias, the label in small letters otherwise
ExpectedLanguage(chars) ==
    IF IsCasingOf(chars, <<"j","s">>)
       \/ IsCasingOf(chars, <<"j","a","v","a","s","c","r","i","p","t">>) THEN "javascript"
    ELSE IF IsCasingOf(chars, <<"p","y">>)
       \/ IsCasingOf(chars, <<"p","y","t","h","o","n">>) THEN "python"
    ELSE CASE chars = <<"P","H","P">> -> "php"
           [] chars = <<"R","u","b","y">> -> "ruby"
           [] chars = <<"j","s","x">> -> "jsx"
           [] chars = <<"P","y","3">> -> "py3"
           [] chars = <<" ","J","S">> -> " js"
           [] chars = <<"j","a","v","a">> -> "java"
           [] chars = <<>> -> ""

\* C21: _normalize_language gives "javascript" for every casing of js and
\* javascript, "python" for every casing of py and python, and any other label
\* in small letters; a block is submitted with language "python" or
\* "javascript" only, namely the canonical name of its label, and the blocks
\* submitted are exactly those whose label is a casing of one of the four aliases.
C21_NormalizationCaseInsensitive ==
    \A k \in 1..Len(code_blocks) :
        LET label == code_blocks[k].language
            alias == \E a \in Aliases : IsCasingOf(label, a)
        IN  /\ _normalize_language(label) = ExpectedLanguage(label)
            /\ IsSupported(_normalize_language(label)) <=> alias
            /\ (k <= Len(submitted)) =>
                   /\ alias
                   /\ submitted[k].language \in {"python", "javascript"}
                   /\ submitted[k].language = ExpectedLanguage(label)
            /\ (_started /\ pc # "idle" /\ _runner # 0 /\ k = 1) =>
                   (alias <=> Len(submitted) = 1)
            /\ (pc = "done" /\ ~alias /\ result.kind = "returned") =>
                   /\ result.exit_code = 1
                   /\ ending.why = "unsupported"

\* C21: a block labelled JavaScript, capitals inside, was submitted as javascript
C21_Witness ==
    /\ Len(code_blocks) = 1
    /\ code_blocks[1].language = <<"J","a","v","a","S","c","r","i","p","t">>
    /\ Len(submitted) = 1
    /\ submitted[1].language = "javascript"
    /\ Len(executions) = 1

\* the return values bool() takes for false
FalsyValues == {PyNone, PyInt(0), PyBool(FALSE), PyS(""), PyDict("")}

\* the text of the truthy return values
ExpectedValueText(v) ==
    CASE v = PyInt(7) -> "7"
      [] v = PyBool(TRUE) -> "True"
      [] v = PyS("ok") -> "ok"
      [] v = PyDict("x") -> "{'data': 'x'}"

\* C22: in sync mode a block whose execution completed without error
\* contributes "Execution result:\n<return value>" followed by the logs suffix,
\* and only the logs suffix when the return value is None, 0, False, "" or {};
\* with such a value and no logs its segment of the output is empty.
C22_FalsyReturnOmitted ==
    _sync_execution =>
        \A j \in 1..Len(outputs) :
            LET execution == executions[j]
                falsy == execution.return_value \in FalsyValues
            IN  /\ execution.done
                /\ execution.error = PyNone
                /\ outputs[j] =
                       (IF falsy THEN ""
                        ELSE "Execution result:\n" \o ExpectedValueText(execution.return_value))
                       \o ExpectedLogsSuffix(execution.logs)
                /\ (falsy /\ execution.logs = <<>>) => outputs[j] = ""

\* C22: two blocks succeeded, the first returned False with no logs: the output
\* starts with the separator, after an empty first segment
C22_Witness ==
    /\ pc = "done"
    /\ _sync_execution
    /\ Len(outputs) = 2
    /\ executions[1].return_value = PyBool(FALSE)
    /\ executions[1].logs = <<>>
    /\ outputs[1] = ""
    /\ outputs[2] = "Execution result:\n7"
    /\ result.exit_code = 0
    /\ result.output = "\n===\nExecution result:\n7"

\* C23: no step of execute_code_blocks changes the executor: when the call is
\* entered, resumes after a remote call, ends in any way or hands its result to
\* the caller, _started, the handle in _runner, the handles constructed and the
\* four configuration fields are what they were before the step.
C23_CallKeepsState ==
    [][ (pc' # pc \/ executions' # executions) =>
            /\ _started' = _started
            /\ _runner' = _runner
            /\ handles' = handles
            /\ _api_token' = _api_token
            /\ _timeout' = _timeout
            /\ _remove_on_done' = _remove_on_done
            /\ _sync_execution' = _sync_execution ]_vars

\* C23: the call ended on a fault raised by wait_for_done for its second block,
\* and the executor is started and holds the handle the blocks were submitted with
C23_Witness ==
    /\ pc = "done"
    /\ ending.why = "wait_fault"
    /\ Len(submitted) = 2
    /\ _started
    /\ _runner = 1
    /\ submitted[2].runner = 1
    /\ _timeout = 60

\* the failure message of the block the call ended at
ExpectedFailureMessage ==
    LET k == ending.block IN
    CASE ending.why = "unsupported" ->
            "Unsupported language: " \o Text(code_blocks[k].language)
                \o ". Supported languages: python, javascript"
      [] ending.why = "error" ->
            "Execution failed with error:\n" \o executions[k].error.s
                \o ExpectedLogsSuffix(executions[k].logs)
      [] ending.why \in {"run_fault", "wait_fault"} ->
            "Error executing code: " \o ending.fault

\* C24: when the call ends early at block k, on an unsupported language, an
\* execution error or a caught fault, the output of the result is the failure
\* message of block k and nothing else, whatever texts the blocks before k had
\* contributed; the exit code is 1.
C24_EarlyOutputIsFailureOnly ==
    (pc = "done" /\ ending.why \in {"unsupported", "error", "run_fault", "wait_fault"}) =>
        /\ result.kind = "returned"
        /\ result.exit_code = 1
        /\ ending.block >= 1
        /\ Len(outputs) = ending.block - 1
        /\ result.output = ExpectedFailureMessage

\* C24: the first block contributed a text and the second raised a fault
C24_Witness ==
    /\ pc = "done"
    /\ ending.why = "wait_fault"
    /\ ending.block = 2
    /\ Len(outputs) = 1
    /\ outputs[1] # ""
    /\ result.output = "Error executing code: Network error"

\* C25: when the call resumes from the remote call for block i on an executor
\* that stop() has left without a handle, it submits no further block; it ends
\* by returning, never by raising; when block i succeeded and block i + 1 has a
\* supported language, the result is exit code 1 with "Error executing code: "
\* and the text of the fault of the missing handle, and carries the id of block
\* i's execution; when block i succeeded and was the last block, the result is
\* exit code 0.
C25_StopDuringCall ==
    [][ (pc \in {"run", "wait"} /\ _runner = 0 /\ pc' # pc) =>
            LET i == idx
                succeeded ==
                    /\ Len(executions') >= i
                    /\ _sync_execution =>
                           (executions'[i].done /\ ~PyTruthy(executions'[i].error))
            IN  /\ submitted' = submitted
                /\ pc' \in {"wait", "done"}
                /\ (pc' = "wait") => (pc = "run" /\ _sync_execution)
                /\ (pc' = "done") => result'.kind = "returned"
                /\ (pc' = "done" /\ succeeded /\ i < Len(code_blocks)
                      /\ _normalize_language(code_blocks[i + 1].language)
                             \in {"python", "javascript"}) =>
                       /\ result'.exit_code = 1
                       /\ result'.output =
                              "Error executing code: 'NoneType' object has no attribute 'run'"
                       /\ result'.execution_id = PyS(executions'[i].id)
                       /\ ending'.block = i + 1
                /\ (pc' = "done" /\ succeeded /\ i = Len(code_blocks)) =>
                       /\ result'.exit_code = 0
                       /\ result'.execution_id = PyS(executions'[i].id) ]_vars

\* C25: the executor was stopped during the remote call for the first block;
\* the call ended at the second block on the fault of the missing handle and
\* returned the id of the first execution
C25_Witness ==
    /\ pc = "done"
    /\ ~_started
    /\ _runner = 0
    /\ Len(code_blocks) = 2
    /\ Len(submitted) = 1
    /\ submitted[1].runner = 1
    /\ ending.why = "run_fault"
    /\ ending.block = 2
    /\ ending.fault = NoRunnerError
    /\ result.kind = "returned"
    /\ result.exit_code = 1
    /\ result.execution_id = PyS("exec-1")

====
